---- MODULE Spec2Model ----
(***************************************************************************)
(* A model of sf2parser.py: the SF2Parser class that decodes a SoundFont 2 *)
(* file (a RIFF container) into the INFO, sdta and pdta dictionaries.      *)
(*                                                                         *)
(* Bytes are the integers 0..255, the file is a sequence of bytes, text is *)
(* a sequence of code points, a Python Optional is a sequence of length 0  *)
(* (None) or 1.  Every reader takes the cursor c = [buf, pos] (self.buffer *)
(* and the position of self.fp) and returns [c, v, e]: the cursor after    *)
(* the call, the value returned, and the exception raised (NoErr if none). *)
(***************************************************************************)
EXTENDS Integers, Sequences, FiniteSets, TLC

VARIABLES
    file,                   \* the bytes of the file behind self.fp
    kwargs,                 \* the options the constructor was called with
    fpos,                   \* self.fp.tell(): bytes read from the file so far
    buffer,                 \* self.buffer
    ignore_errors,          \* self.ignore_errors
    ignoreIndexOutOfRange,  \* self.ignoreIndexOutOfRange
    pc,                     \* where parse() stands
    INFO,                   \* self.INFO
    sdta,                   \* self.sdta
    pdta,                   \* self.pdta
    local,                  \* the dict the running section assembler is filling
    ckSize,                 \* the running assembler's remaining LIST length
    err,                    \* the exception that ended parse(), NoErr if none
    out,                    \* what was printed, oldest first
    returned                \* the last cursor read that returned, None if none has

vars == <<file, kwargs, fpos, buffer, ignore_errors, ignoreIndexOutOfRange, pc,
          INFO, sdta, pdta, local, ckSize, err, out, returned>>

-----------------------------------------------------------------------------
(* Python values *)

None == << >>
Some(x) == << x >>
EmptyDict == << >>

Min(a, b) == IF a < b THEN a ELSE b

\* text.encode(): the code points of the ASCII literals the source compares with
T_RIFF == <<82, 73, 70, 70>>
T_sfbk == <<115, 102, 98, 107>>
T_LIST == <<76, 73, 83, 84>>
T_INFO == <<73, 78, 70, 79>>
T_sdta == <<115, 100, 116, 97>>
T_pdta == <<112, 100, 116, 97>>
T_smpl == <<115, 109, 112, 108>>
T_sm24 == <<115, 109, 50, 52>>
T_phdr == <<112, 104, 100, 114>>
T_pbag == <<112, 98, 97, 103>>
T_pmod == <<112, 109, 111, 100>>
T_pgen == <<112, 103, 101, 110>>
T_inst == <<105, 110, 115, 116>>
T_ibag == <<105, 98, 97, 103>>
T_imod == <<105, 109, 111, 100>>
T_igen == <<105, 103, 101, 110>>
T_pigen == <<112, 105, 103, 101, 110>>
T_shdr == <<115, 104, 100, 114>>
T_ifil == <<105, 102, 105, 108>>
T_isng == <<105, 115, 110, 103>>
T_INAM == <<73, 78, 65, 77>>
T_irom == <<105, 114, 111, 109>>
T_iver == <<105, 118, 101, 114>>
T_ICRD == <<73, 67, 82, 68>>
T_IENG == <<73, 69, 78, 71>>
T_IPRD == <<73, 80, 82, 68>>
T_ICOP == <<73, 67, 79, 80>>
T_ICMT == <<73, 67, 77, 84>>
T_ISFT == <<73, 83, 70, 84>>
T_EMU8000 == <<69, 77, 85, 56, 48, 48, 48>>

-----------------------------------------------------------------------------
(* Exceptions.  type is the Python exception class, what the message's     *)
(* fixed text, tag / a / b the values the message interpolates.            *)

Error(type, what, tag, a, b) ==
    [type |-> type, what |-> what, tag |-> tag, a |-> a, b |-> b]

NoErr == Error("none", "", << >>, 0, 0)

Ret(c, v) == [c |-> c, v |-> v, e |-> NoErr]
Raise(c, e) == [c |-> c, v |-> None, e |-> e]
Failed(r) == r.e.type # "none"

\* r, then K on what r returned: an exception raised by r ends the caller
Then(r, K(_)) == IF Failed(r) THEN r ELSE K(r)

StructError(n) == Error("struct.error", "unpack requires a buffer of n bytes", << >>, n, 0)
IndexError == Error("IndexError", "index out of range", << >>, 0, 0)
UnicodeDecodeError == Error("UnicodeDecodeError", "invalid utf-8", << >>, 0, 0)

-----------------------------------------------------------------------------
(* bytes.decode(): strict UTF-8 *)

IsCont(b) == b >= 128 /\ b <= 191

\* the range allowed for the second byte of a sequence that starts with b
Second(b) ==
    CASE b = 224 -> 160 .. 191
      [] b = 237 -> 128 .. 159
      [] b = 240 -> 144 .. 191
      [] b = 244 -> 128 .. 143
      [] OTHER   -> 128 .. 191

\* the number of bytes of the sequence that starts at bs[i], 0 if it is invalid
Utf8Len(bs, i) ==
    IF bs[i] < 128 THEN 1
    ELSE IF bs[i] >= 194 /\ bs[i] <= 223
    THEN IF i + 1 <= Len(bs) /\ IsCont(bs[i + 1]) THEN 2 ELSE 0
    ELSE IF bs[i] >= 224 /\ bs[i] <= 239
    THEN IF i + 2 <= Len(bs) /\ bs[i + 1] \in Second(bs[i]) /\ IsCont(bs[i + 2])
         THEN 3 ELSE 0
    ELSE IF bs[i] >= 240 /\ bs[i] <= 244
    THEN IF i + 3 <= Len(bs) /\ bs[i + 1] \in Second(bs[i])
            /\ IsCont(bs[i + 2]) /\ IsCont(bs[i + 3])
         THEN 4 ELSE 0
    ELSE 0

\* the code point of the n-byte sequence that starts at bs[i]
CodePoint(bs, i, n) ==
    CASE n = 1 -> bs[i]
      [] n = 2 -> (bs[i] - 192) * 64 + (bs[i + 1] - 128)
      [] n = 3 -> (bs[i] - 224) * 4096 + (bs[i + 1] - 128) * 64 + (bs[i + 2] - 128)
      [] n = 4 -> (bs[i] - 240) * 262144 + (bs[i + 1] - 128) * 4096
                  + (bs[i + 2] - 128) * 64 + (bs[i + 3] - 128)

RECURSIVE decode_from(_, _, _)
decode_next(bs, i, acc, n) ==
    IF n = 0 THEN [ok |-> FALSE, s |-> acc]
    ELSE decode_from(bs, i + n, Append(acc, CodePoint(bs, i, n)))

decode_from(bs, i, acc) ==
    IF i > Len(bs) THEN [ok |-> TRUE, s |-> acc]
    ELSE decode_next(bs, i, acc, Utf8Len(bs, i))

decode(bs) == decode_from(bs, 1, << >>)

-----------------------------------------------------------------------------
(* The cursor: self.buffer topped up from self.fp *)

Cursor == [buf |-> buffer, pos |-> fpos]

\* bytes consumed from the stream: read from the file and no longer buffered
ConsumedAt(c) == c.pos - Len(c.buf)
Consumed == fpos - Len(buffer)

\* self.buffer[:n] and self.buffer[n:]
Take(s, n) == SubSeq(s, 1, Min(n, Len(s)))
Drop(s, n) == SubSeq(s, n + 1, Len(s))
Advance(c, n) == [c EXCEPT !.buf = Drop(c.buf, n)]

\* self.fp.read(n) returns at most n bytes, fewer at the end of the file
Available(c, n) == Min(n, Len(file) - c.pos)
fp_read(c, n) == SubSeq(file, c.pos + 1, c.pos + Available(c, n))

check(c, length) ==
    IF Len(c.buf) - length < 0
    THEN [buf |-> c.buf \o fp_read(c, length - Len(c.buf)),
          pos |-> c.pos + Available(c, length - Len(c.buf))]
    ELSE c

\* struct.unpack of little-endian bytes, unsigned and signed
Unsigned(bs) ==
    CASE Len(bs) = 1 -> bs[1]
      [] Len(bs) = 2 -> bs[1] + 256 * bs[2]
      [] Len(bs) = 4 -> bs[1] + 256 * bs[2] + 65536 * bs[3] + 16777216 * bs[4]

Signed(bs, bits) ==
    IF Unsigned(bs) >= 2 ^ (bits - 1) THEN Unsigned(bs) - 2 ^ bits ELSE Unsigned(bs)

\* struct.unpack(fmt, self.buffer[:n]); self.buffer = self.buffer[n:]
Unpack(c, n, signed) ==
    IF Len(Take(c.buf, n)) # n THEN Raise(c, StructError(n))
    ELSE Ret(Advance(c, n),
             IF signed THEN Signed(Take(c.buf, n), 8 * n) ELSE Unsigned(Take(c.buf, n)))

SHORT(c) == Unpack(check(c, 2), 2, TRUE)
WORD(c)  == Unpack(check(c, 2), 2, FALSE)
DWORD(c) == Unpack(check(c, 4), 4, FALSE)
BYTE(c)  == Unpack(check(c, 1), 1, FALSE)
CHAR(c)  == Unpack(check(c, 1), 1, TRUE)

\* code = self.buffer[0:4].decode(); self.buffer = self.buffer[4:]
Fourcc(c, d) == IF ~d.ok THEN Raise(c, UnicodeDecodeError) ELSE Ret(Advance(c, 4), d.s)
FourccAt(c) == Fourcc(c, decode(Take(c.buf, 4)))
FOURCC(c) == FourccAt(check(c, 4))

\* the while loop of ZSTR: self.buffer[zstr_len] is read before zstr_len<length
\* is tested; -1 stands for the IndexError of reading past the buffer
RECURSIVE zstr_scan(_, _, _)
zstr_scan(buf, length, zstr_len) ==
    IF zstr_len >= Len(buf) THEN -1
    ELSE IF buf[zstr_len + 1] # 0 /\ zstr_len < length
         THEN zstr_scan(buf, length, zstr_len + 1)
         ELSE zstr_len

\* the rest of ZSTR, from fault=False on; d is self.buffer[:zstr_len].decode()
Zstr(c, length, zstr_len, d) ==
    IF zstr_len = -1 THEN Raise(c, IndexError)
    ELSE IF ~d.ok THEN Raise(c, UnicodeDecodeError)
    ELSE Ret(Advance(c, length),
             [zstr |-> d.s, fault |-> (zstr_len = length \/ zstr_len = 0)])
ZstrLen(c, length, zstr_len) == Zstr(c, length, zstr_len, decode(Take(c.buf, zstr_len)))
ZstrAt(c, length) == ZstrLen(c, length, zstr_scan(c.buf, length, 0))

\* returns v = [zstr, fault]
ZSTR(c, length) == ZstrAt(check(c, length), length)

\* returns v = [ckID, ckSize]
chunk_header(c) ==
    Then(FOURCC(c), LAMBDA t :
    Then(DWORD(t.c), LAMBDA s :
    Ret(s.c, [ckID |-> t.v, ckSize |-> s.v])))

\* self.fp.read(length), the result dropped
skip(c, length) == [c EXCEPT !.pos = c.pos + Available(c, length)]

-----------------------------------------------------------------------------
(* The fixed-size record decoders of the pdta sub-chunks *)

\* one field read, by the reader the source names for it
ReadField(c, kind) ==
    CASE kind = "WORD"   -> WORD(c)
      [] kind = "SHORT"  -> SHORT(c)
      [] kind = "DWORD"  -> DWORD(c)
      [] kind = "BYTE"   -> BYTE(c)
      [] kind = "CHAR"   -> CHAR(c)
      [] kind = "ZSTR20" -> Then(ZSTR(c, 20), LAMBDA r : Ret(r.c, r.v.zstr))

\* the fields of a dict literal are read in the order they are written;
\* v is the sequence of the values read
RECURSIVE ReadFields(_, _, _)
ReadFields(c, kinds, acc) ==
    IF kinds = << >> THEN Ret(c, acc)
    ELSE Then(ReadField(c, Head(kinds)),
              LAMBDA r : ReadFields(r.c, Tail(kinds), Append(acc, r.v)))

NotMultiple(tag, size, width) ==
    Error("Exception", "Chunk size is not a multiple of", tag, size, width)
\* "<field> values are not monotonically increasing."
NotMonotonic(field) == Error("Exception", field, << >>, 0, 0)

\* the messages of the index fields, as the source spells them
F_wPresetBagNdx == "wPresetBagNdx values are not monotonically increasing"
F_wGenNdx == "wGenNdx values are not monotonically increasing"
F_wModNdx == "wModNdx values are not monotonically increasing"
F_wInstBagNdx == "wInstBagNdx values are not monontically increasing"
F_wInstGenNdx == "wInstGenNdx values are not monotonically increasing"
F_wInstModNdx == "wInstModNdx values are not monotonically increasing"

\* lastXNdx != None and lastXNdx > x
Above(last, x) == last # None /\ last[1] > x

sfPresetHeader(v) ==
    [achPresetName |-> v[1], wPreset |-> v[2], wBank |-> v[3], wPresetBagNdx |-> v[4],
     dwLibrary |-> v[5], dwGenre |-> v[6], dwMorphology |-> v[7]]

RECURSIVE phdr_loop(_, _, _, _)
phdr_record(c, size, phdr, lastPresetBagNdx, h) ==
    IF Above(lastPresetBagNdx, h.wPresetBagNdx)
    THEN Raise(c, NotMonotonic(F_wPresetBagNdx))
    ELSE phdr_loop(c, size - 38, Append(phdr, h), Some(h.wPresetBagNdx))

phdr_loop(c, size, phdr, lastPresetBagNdx) ==
    IF size > 0
    THEN Then(ReadFields(check(c, 38),
                  <<"ZSTR20", "WORD", "WORD", "WORD", "DWORD", "DWORD", "DWORD">>, << >>),
              LAMBDA r : phdr_record(r.c, size, phdr, lastPresetBagNdx,
                                     sfPresetHeader(r.v)))
    ELSE Ret(c, phdr)

parse_phdr(c, size) ==
    IF size % 38 # 0 THEN Raise(c, NotMultiple(T_phdr, size, 38))
    ELSE phdr_loop(c, size, << >>, None)

sfPresetBag(v) == [wGenNdx |-> v[1], wModNdx |-> v[2]]

\* line 151 assigns lastGenNdx where lastModNdx is meant: lastModNdx stays
\* None, and the next wGenNdx is compared with this record's wModNdx
RECURSIVE pbag_loop(_, _, _, _, _)
pbag_record(c, size, pbag, lastGenNdx, lastModNdx, b) ==
    IF Above(lastGenNdx, b.wGenNdx) THEN Raise(c, NotMonotonic(F_wGenNdx))
    ELSE IF Above(lastModNdx, b.wModNdx) THEN Raise(c, NotMonotonic(F_wModNdx))
    ELSE pbag_loop(c, size - 4, Append(pbag, b), Some(b.wModNdx), lastModNdx)

pbag_loop(c, size, pbag, lastGenNdx, lastModNdx) ==
    IF size > 0
    THEN Then(ReadFields(check(c, 4), <<"WORD", "WORD">>, << >>),
              LAMBDA r : pbag_record(r.c, size, pbag, lastGenNdx, lastModNdx,
                                     sfPresetBag(r.v)))
    ELSE Ret(c, pbag)

parse_pbag(c, size) ==
    IF size % 4 # 0 THEN Raise(c, NotMultiple(T_pbag, size, 4))
    ELSE pbag_loop(c, size, << >>, None, None)

sfModList(v) ==
    [sfModSrcOper |-> v[1], sfModDestOper |-> v[2], modAmount |-> v[3],
     sfModAmtSrcOper |-> v[4], sfModTransOper |-> v[5]]

RECURSIVE pmod_loop(_, _, _)
pmod_loop(c, size, pmod) ==
    IF size > 0
    THEN Then(ReadFields(check(c, 10), <<"WORD", "WORD", "SHORT", "WORD", "WORD">>, << >>),
              LAMBDA r : pmod_loop(r.c, size - 10, Append(pmod, sfModList(r.v))))
    ELSE Ret(c, pmod)

parse_pmod(c, size) ==
    IF size % 10 # 0 THEN Raise(c, NotMultiple(T_pmod, size, 10))
    ELSE pmod_loop(c, size, << >>)

sfGenList(v) == [sfGenOper |-> v[1], genAmount |-> v[2]]

RECURSIVE pgen_loop(_, _, _)
pgen_loop(c, size, pgen) ==
    IF size > 0
    THEN Then(ReadFields(check(c, 4), <<"WORD", "WORD">>, << >>),
              LAMBDA r : pgen_loop(r.c, size - 4, Append(pgen, sfGenList(r.v))))
    ELSE Ret(c, pgen)

\* parse_pgen without its test of the size: the decoder that C9_RecordCount
\* tells apart from parse_pgen
parse_pgen_unchecked(c, size) == pgen_loop(c, size, << >>)

parse_pgen(c, size) ==
    IF size % 4 # 0 THEN Raise(c, NotMultiple(T_pgen, size, 4))
    ELSE pgen_loop(c, size, << >>)

sfInst(v) == [achInstName |-> v[1], wInstBagNdx |-> v[2]]

RECURSIVE inst_loop(_, _, _, _)
inst_record(c, size, inst, lastInstBagNdx, i) ==
    IF Above(lastInstBagNdx, i.wInstBagNdx) THEN Raise(c, NotMonotonic(F_wInstBagNdx))
    ELSE inst_loop(c, size - 22, Append(inst, i), Some(i.wInstBagNdx))

inst_loop(c, size, inst, lastInstBagNdx) ==
    IF size > 0
    THEN Then(ReadFields(check(c, 22), <<"ZSTR20", "WORD">>, << >>),
              LAMBDA r : inst_record(r.c, size, inst, lastInstBagNdx, sfInst(r.v)))
    ELSE Ret(c, inst)

parse_inst(c, size) ==
    IF size % 22 # 0 THEN Raise(c, NotMultiple(T_inst, size, 22))
    ELSE inst_loop(c, size, << >>, None)

sfInstBag(v) == [wInstGenNdx |-> v[1], wInstModNdx |-> v[2]]

RECURSIVE ibag_loop(_, _, _, _, _)
ibag_record(c, size, ibag, lastInstGenNdx, lastInstModNdx, b) ==
    IF Above(lastInstGenNdx, b.wInstGenNdx) THEN Raise(c, NotMonotonic(F_wInstGenNdx))
    ELSE IF Above(lastInstModNdx, b.wInstModNdx) THEN Raise(c, NotMonotonic(F_wInstModNdx))
    ELSE ibag_loop(c, size - 4, Append(ibag, b), Some(b.wInstGenNdx), Some(b.wInstModNdx))

ibag_loop(c, size, ibag, lastInstGenNdx, lastInstModNdx) ==
    IF size > 0
    THEN Then(ReadFields(check(c, 4), <<"WORD", "WORD">>, << >>),
              LAMBDA r : ibag_record(r.c, size, ibag, lastInstGenNdx, lastInstModNdx,
                                     sfInstBag(r.v)))
    ELSE Ret(c, ibag)

parse_ibag(c, size) ==
    IF size % 4 # 0 THEN Raise(c, NotMultiple(T_ibag, size, 4))
    ELSE ibag_loop(c, size, << >>, None, None)

RECURSIVE imod_loop(_, _, _)
imod_loop(c, size, imod) ==
    IF size > 0
    THEN Then(ReadFields(check(c, 10), <<"WORD", "WORD", "SHORT", "WORD", "WORD">>, << >>),
              LAMBDA r : imod_loop(r.c, size - 10, Append(imod, sfModList(r.v))))
    ELSE Ret(c, imod)

parse_imod(c, size) ==
    IF size % 10 # 0 THEN Raise(c, NotMultiple(T_imod, size, 10))
    ELSE imod_loop(c, size, << >>)

sfInstGenList(v) == [sfGenOper |-> v[1], genAmount |-> v[2]]

RECURSIVE igen_loop(_, _, _)
igen_loop(c, size, igen) ==
    IF size > 0
    THEN Then(ReadFields(check(c, 4), <<"WORD", "WORD">>, << >>),
              LAMBDA r : igen_loop(r.c, size - 4, Append(igen, sfInstGenList(r.v))))
    ELSE Ret(c, igen)

\* the message of parse_igen spells the chunk 'pigen'
parse_igen(c, size) ==
    IF size % 4 # 0 THEN Raise(c, NotMultiple(T_pigen, size, 4))
    ELSE igen_loop(c, size, << >>)

sfSample(v) ==
    [achSampleName |-> v[1], dwStart |-> v[2], dwEnd |-> v[3], dwStartloop |-> v[4],
     dwEndloop |-> v[5], dwSampleRate |-> v[6], byOriginalPitch |-> v[7],
     chPitchCorrection |-> v[8], wSampleLink |-> v[9], sfSampleType |-> v[10]]

RECURSIVE shdr_loop(_, _, _)
shdr_loop(c, size, shdr) ==
    IF size > 0
    THEN Then(ReadFields(check(c, 46),
                  <<"ZSTR20", "DWORD", "DWORD", "DWORD", "DWORD", "DWORD",
                    "BYTE", "CHAR", "WORD", "WORD">>, << >>),
              LAMBDA r : shdr_loop(r.c, size - 46, Append(shdr, sfSample(r.v))))
    ELSE Ret(c, shdr)

parse_shdr(c, size) ==
    IF size % 46 # 0 THEN Raise(c, NotMultiple(T_shdr, size, 46))
    ELSE shdr_loop(c, size, << >>)

-----------------------------------------------------------------------------
(* The decoders of the INFO sub-chunks *)

IllegalSize(tag, size) == Error("Exception", "Chunk has illegal size", tag, size, 0)

sfVersionTag(c, tag, size) ==
    IF size # 4 /\ ~ignore_errors THEN Raise(c, IllegalSize(tag, size))
    ELSE Then(ReadFields(c, <<"WORD", "WORD">>, << >>),
              LAMBDA r : Ret(r.c, [wMajor |-> r.v[1], wMinor |-> r.v[2]]))

parse_ifil(c, size) == sfVersionTag(c, T_ifil, size)
parse_iver(c, size) == sfVersionTag(c, T_iver, size)

\* zstr,fault = self.ZSTR(ckSize)
\* return {'sz..': <dflt> if fault else zstr, 'sz.._raw': zstr}
ZText(c, size, dflt) ==
    Then(ZSTR(c, size),
         LAMBDA r : Ret(r.c, [sz |-> IF r.v.fault THEN dflt ELSE Some(r.v.zstr),
                              raw |-> r.v.zstr]))

parse_isng(c, size) == ZText(c, size, Some(T_EMU8000))
parse_INAM(c, size) == ZText(c, size, None)
parse_irom(c, size) == ZText(c, size, None)
parse_ICRD(c, size) == ZText(c, size, None)
parse_IENG(c, size) == ZText(c, size, None)
parse_IPRD(c, size) == ZText(c, size, None)
parse_ICOP(c, size) == ZText(c, size, None)
parse_ICMT(c, size) == ZText(c, size, None)
parse_ISFT(c, size) == ZText(c, size, None)

\* a value of the INFO dict: None, a dict (one decoded sub-chunk) or a list of them
PyNone == [t |-> "None", l |-> << >>]
PyDict(d) == [t |-> "dict", l |-> <<d>>]
PyList(l) == [t |-> "list", l |-> l]

InfoKey(tag) ==
    CASE tag = T_ifil -> "ifil" [] tag = T_isng -> "isng" [] tag = T_INAM -> "INAM"
      [] tag = T_irom -> "irom" [] tag = T_iver -> "iver" [] tag = T_ICRD -> "ICRD"
      [] tag = T_IENG -> "IENG" [] tag = T_IPRD -> "IPRD" [] tag = T_ICOP -> "ICOP"
      [] tag = T_ICMT -> "ICMT" [] tag = T_ISFT -> "ISFT" [] OTHER -> ""

InfoInit ==
    [ifil |-> PyNone, isng |-> PyNone, INAM |-> PyNone,
     irom |-> PyList(<< >>), iver |-> PyList(<< >>), ICRD |-> PyList(<< >>),
     IENG |-> PyList(<< >>), IPRD |-> PyList(<< >>), ICOP |-> PyList(<< >>),
     ICMT |-> PyList(<< >>), ISFT |-> PyList(<< >>)]

\* getattr(SF2Parser, f"parse_{subCkID}")(self, subCkSize)
InfoMethod(key, c, size) ==
    CASE key = "ifil" -> parse_ifil(c, size) [] key = "isng" -> parse_isng(c, size)
      [] key = "INAM" -> parse_INAM(c, size) [] key = "irom" -> parse_irom(c, size)
      [] key = "iver" -> parse_iver(c, size) [] key = "ICRD" -> parse_ICRD(c, size)
      [] key = "IENG" -> parse_IENG(c, size) [] key = "IPRD" -> parse_IPRD(c, size)
      [] key = "ICOP" -> parse_ICOP(c, size) [] key = "ICMT" -> parse_ICMT(c, size)
      [] key = "ISFT" -> parse_ISFT(c, size)

ExpectedLIST(what, ckID, size) == Error("Exception", what, ckID, size, 0)
ExpectedForm(what, formID) == Error("Exception", what, formID, 0, 0)
UnexpectedChunk(what, subCkID, size) == Error("Exception", what, subCkID, size, 0)
AttributeError == Error("AttributeError", "'dict' object has no attribute 'append'", << >>, 0, 0)

\* a head that takes a LIST of any form: the assembler that C8_SectionsInOrder
\* tells apart from ListHeader
ListHeader_anyform(c, formID, init, whatChunk, whatForm) ==
    Then(chunk_header(c), LAMBDA h :
      IF h.v.ckID # T_LIST
      THEN Raise(h.c, ExpectedLIST(whatChunk, h.v.ckID, h.v.ckSize))
      ELSE Then(FOURCC(h.c), LAMBDA f :
             Ret(f.c, [local |-> init, ckSize |-> h.v.ckSize - 4])))

\* the head of a section assembler: the LIST chunk header and its form id;
\* v = [local, ckSize] is the dict to fill and the remaining LIST length
ListHeader(c, formID, init, whatChunk, whatForm) ==
    Then(chunk_header(c), LAMBDA h :
      IF h.v.ckID # T_LIST
      THEN Raise(h.c, ExpectedLIST(whatChunk, h.v.ckID, h.v.ckSize))
      ELSE Then(FOURCC(h.c), LAMBDA f :
             IF f.v # formID THEN Raise(f.c, ExpectedForm(whatForm, f.v))
             ELSE Ret(f.c, [local |-> init, ckSize |-> h.v.ckSize - 4])))

INFO_header(c) ==
    ListHeader(c, T_INFO, InfoInit, "Expected chunk 'LIST' but found chunk",
               "Expected form 'INFO' but found")

\* INFO[subCkID] = v, or INFO[subCkID].append(v)
InfoStore(d, key, v) ==
    IF d[key].t = "None" THEN [d EXCEPT ![key] = PyDict(v)]
    ELSE [d EXCEPT ![key] = PyList(Append(@.l, v))]

\* the body of the while loop of parse_INFO, after the chunk header h is read;
\* .append is looked up before the decoder is called
INFO_dispatch(h, d, size, key) ==
    IF key \in DOMAIN d
    THEN IF d[key].t = "dict" THEN Raise(h.c, AttributeError)
         ELSE Then(InfoMethod(key, h.c, h.v.ckSize),
                   LAMBDA r : Ret(r.c, [local |-> InfoStore(d, key, r.v),
                                        ckSize |-> size - (h.v.ckSize + 8)]))
    ELSE Raise(h.c, UnexpectedChunk("Unexpected chunk", h.v.ckID, h.v.ckSize))

\* one turn of the while loop of parse_INFO
INFO_subchunk(c, d, size) ==
    Then(chunk_header(c), LAMBDA h : INFO_dispatch(h, d, size, InfoKey(h.v.ckID)))

MissingIfil == Error("Exception", "Missing chunk 'ifil'.", << >>, 0, 0)

\* a parse_INFO that ends without its test of INFO['ifil']
INFO_return_untested(c, d) == Ret(c, d)

\* the end of parse_INFO: v is the INFO dict returned
INFO_return(c, d) ==
    IF d.ifil.t = "None" /\ ~ignore_errors THEN Raise(c, MissingIfil)
    ELSE Ret(c, d)

-----------------------------------------------------------------------------
(* The sample data: parse_smpl, parse_sm24 and the assembler parse_sdta *)

ValueError == Error("ValueError", "buffer size must be a multiple of element size", << >>, 0, 0)
BroadcastError == Error("ValueError", "operands could not be broadcast together", << >>, 0, 0)

\* an int16 result of numpy arithmetic: the low 16 bits, read as signed
Wrap16(x) == ((x + 32768) % 65536) - 32768

\* np.frombuffer(bs, dtype='<i2')
RECURSIVE Int16Array(_)
Int16Array(bs) ==
    IF bs = << >> THEN << >>
    ELSE <<Signed(SubSeq(bs, 1, 2), 16)>> \o Int16Array(Drop(bs, 2))

\* np.frombuffer(bs, dtype=np.int8)
Int8Array(bs) == [i \in 1 .. Len(bs) |-> Signed(<<bs[i]>>, 8)]

\* sample_data *= 2**8 on an int16 array
Scale(a) == [i \in 1 .. Len(a) |-> Wrap16(a[i] * 256)]

\* the rest of parse_smpl and of parse_sm24, after self.check(ckSize)
Smpl(c, size) ==
    IF Len(Take(c.buf, size)) % 2 # 0 THEN Raise(c, ValueError)
    ELSE Ret(Advance(c, size), Scale(Int16Array(Take(c.buf, size))))
Sm24(c, size) == Ret(Advance(c, size), Int8Array(Take(c.buf, size)))

parse_smpl(c, size) == Smpl(check(c, size), size)
parse_sm24(c, size) == Sm24(check(c, size), size)

\* the bitwise or of two naturals below 2^bits
RECURSIVE OrBits(_, _, _)
OrBits(a, b, bits) ==
    IF bits = 0 THEN 0
    ELSE (IF a % 2 = 1 \/ b % 2 = 1 THEN 1 ELSE 0)
         + 2 * OrBits(a \div 2, b \div 2, bits - 1)

\* np.bitwise_or of an int16 and an int8 element: the int8 is widened to int16
Or16(a, b) == Wrap16(OrBits(a % 65536, b % 65536, 16))

\* np.bitwise_or(smpl, sm24) with numpy's broadcasting of a one-element array
bitwise_or(a, b) ==
    IF Len(a) = Len(b) THEN [ok |-> TRUE, v |-> [i \in 1 .. Len(a) |-> Or16(a[i], b[i])]]
    ELSE IF Len(b) = 1 THEN [ok |-> TRUE, v |-> [i \in 1 .. Len(a) |-> Or16(a[i], b[1])]]
    ELSE IF Len(a) = 1 THEN [ok |-> TRUE, v |-> [i \in 1 .. Len(b) |-> Or16(a[1], b[i])]]
    ELSE [ok |-> FALSE, v |-> << >>]

SdtaInit == [smpl |-> None, sm24 |-> None]

sdta_header(c) ==
    ListHeader(c, T_sdta, SdtaInit, "Expected chunk 'sdta' but found chunk",
               "Expected form 'sdta' but found")

\* sdta[key] = v, for a key the dict may not have yet
SdtaStore(d, key, v) == [k \in DOMAIN d \cup {key} |-> IF k = key THEN v ELSE d[k]]

\* the body of the while loop of parse_sdta, after the chunk header h is read:
\* an 'sm24' sub-chunk goes to parse_isng and is stored under the key 'isng',
\* a sub-chunk of another tag is not read at all
sdta_dispatch(h, d, size) ==
    IF h.v.ckID = T_smpl
    THEN Then(parse_smpl(h.c, h.v.ckSize),
              LAMBDA r : Ret(r.c, [local |-> SdtaStore(d, "smpl", Some(r.v)),
                                   ckSize |-> size - (h.v.ckSize + 8)]))
    ELSE IF h.v.ckID = T_sm24
    THEN Then(parse_isng(h.c, h.v.ckSize),
              LAMBDA r : Ret(r.c, [local |-> SdtaStore(d, "isng", r.v),
                                   ckSize |-> size - (h.v.ckSize + 8)]))
    ELSE Ret(h.c, [local |-> d, ckSize |-> size - (h.v.ckSize + 8)])

\* one turn of the while loop of parse_sdta
sdta_subchunk(c, d, size) ==
    Then(chunk_header(c), LAMBDA h : sdta_dispatch(h, d, size))

\* sdta['smpl'] = m; sdta.pop('sm24')
Merged(c, d, m) ==
    IF ~m.ok THEN Raise(c, BroadcastError)
    ELSE Ret(c, [k \in DOMAIN d \ {"sm24"} |-> IF k = "smpl" THEN Some(m.v) ELSE d[k]])

\* the end of parse_sdta: v is the sdta dict returned
sdta_return(c, d) ==
    IF d.smpl # None /\ d.sm24 # None
    THEN Merged(c, d, bitwise_or(d.smpl[1], d.sm24[1]))
    ELSE Ret(c, d)

-----------------------------------------------------------------------------
(* The preset, instrument and sample headers: the assembler parse_pdta *)

PdtaInit ==
    [phdr |-> None, pbag |-> None, pmod |-> None, pgen |-> None, inst |-> None,
     ibag |-> None, imod |-> None, igen |-> None, shdr |-> None]

PdtaKey(tag) ==
    CASE tag = T_phdr -> "phdr" [] tag = T_pbag -> "pbag" [] tag = T_pmod -> "pmod"
      [] tag = T_pgen -> "pgen" [] tag = T_inst -> "inst" [] tag = T_ibag -> "ibag"
      [] tag = T_imod -> "imod" [] tag = T_igen -> "igen" [] tag = T_shdr -> "shdr"
      [] OTHER -> ""

\* getattr(SF2Parser, f"parse_{subCkID}")(self, subCkSize)
PdtaMethod(key, c, size) ==
    CASE key = "phdr" -> parse_phdr(c, size) [] key = "pbag" -> parse_pbag(c, size)
      [] key = "pmod" -> parse_pmod(c, size) [] key = "pgen" -> parse_pgen(c, size)
      [] key = "inst" -> parse_inst(c, size) [] key = "ibag" -> parse_ibag(c, size)
      [] key = "imod" -> parse_imod(c, size) [] key = "igen" -> parse_igen(c, size)
      [] key = "shdr" -> parse_shdr(c, size)

pdta_header(c) ==
    ListHeader(c, T_pdta, PdtaInit, "Expected chunk 'pdta' but found chunk",
               "Expected form 'pdta' but found")

\* the body of the while loop of parse_pdta, after the chunk header h is read;
\* the message of an unknown chunk gives the remaining LIST length
pdta_dispatch(h, d, size, key) ==
    IF key \in DOMAIN d
    THEN Then(PdtaMethod(key, h.c, h.v.ckSize),
              LAMBDA r : Ret(r.c, [local |-> [d EXCEPT ![key] = Some(r.v)],
                                   ckSize |-> size - (h.v.ckSize + 8)]))
    ELSE Raise(h.c, UnexpectedChunk("Unknown chunk", h.v.ckID, size))

\* one turn of the while loop of parse_pdta
pdta_subchunk(c, d, size) ==
    Then(chunk_header(c), LAMBDA h : pdta_dispatch(h, d, size, PdtaKey(h.v.ckID)))

Exceeded(size) ==
    Error("Exception", "Exceeded the chunk length for 'pdta' with expected length",
          << >>, size, 0)
Missing(what) == Error("Exception", what, << >>, 0, 0)
OutOfRange(what, ndx, n) == Error("Exception", what, << >>, ndx, n)
TypeError == Error("TypeError", "'NoneType' object", << >>, 0, 0)
ListIndexError == Error("IndexError", "list index out of range", << >>, 0, 0)

\* pdta[src][-2][field]
Penultimate(d, src, field) == d[src][1][Len(d[src][1]) - 1][field]

\* if ndx >= n: raise Exception(msg) unless self.ignoreIndexOutOfRange, else print(msg)
Report(st, what, ndx, n) ==
    IF ndx >= n
    THEN IF ~ignoreIndexOutOfRange THEN [st EXCEPT !.e = OutOfRange(what, ndx, n)]
         ELSE [st EXCEPT !.out = Append(@, OutOfRange(what, ndx, n))]
    ELSE st

\* One bound check of parse_pdta, on the state st = [e, out] of the checks so
\* far:  if pdta[src][-2][field] >= len(pdta[target]): raise or print the message
IndexCheck(st, d, src, field, target, what) ==
    IF st.e.type # "none" THEN st
    ELSE IF d[src] = None THEN [st EXCEPT !.e = TypeError]
    ELSE IF Len(d[src][1]) < 2 THEN [st EXCEPT !.e = ListIndexError]
    ELSE IF d[target] = None THEN [st EXCEPT !.e = TypeError]
    ELSE Report(st, what, Penultimate(d, src, field), Len(d[target][1]))

W_PresetBag == "The wPresetBagNdx is outside the number of zones"
W_Gen == "The wGenNdx is outside the number of generators"
W_Mod == "The wModNdx is outside the number of modulators"
W_InstBag == "The wInstBagNdx is outside the number of instrument zones"
W_InstGen == "The wInstGenNdx is outside the number of instrument generators"
W_InstMod == "The wInstModNdx is outside the number of instrument modulators"

\* the four if / else blocks that follow the loop of parse_pdta; the first
\* compares wPresetBagNdx with len(pdta['phdr'])
Block1(st, d) ==
    IF "phdr" \in DOMAIN d /\ "pbag" \in DOMAIN d
    THEN IndexCheck(st, d, "phdr", "wPresetBagNdx", "phdr", W_PresetBag)
    ELSE [st EXCEPT !.e = Missing("Missing either or both of 'phdr' and 'pbag' chunks.")]

Block2(st, d) ==
    IF st.e.type # "none" THEN st
    ELSE IF "pbag" \in DOMAIN d /\ "pmod" \in DOMAIN d /\ "pgen" \in DOMAIN d
    THEN IndexCheck(IndexCheck(st, d, "pbag", "wGenNdx", "pgen", W_Gen),
                    d, "pbag", "wModNdx", "pmod", W_Mod)
    ELSE [st EXCEPT !.e = Missing("Missing either or both of 'pmod' and 'pgen' chunks.")]

Block3(st, d) ==
    IF st.e.type # "none" THEN st
    ELSE IF "inst" \in DOMAIN d /\ "ibag" \in DOMAIN d
    THEN IndexCheck(st, d, "inst", "wInstBagNdx", "ibag", W_InstBag)
    ELSE [st EXCEPT !.e = Missing("Missing either or both of 'inst' and 'ibag' chunks.")]

Block4(st, d) ==
    IF st.e.type # "none" THEN st
    ELSE IF "ibag" \in DOMAIN d /\ "imod" \in DOMAIN d /\ "igen" \in DOMAIN d
    THEN IndexCheck(IndexCheck(st, d, "ibag", "wInstGenNdx", "igen", W_InstGen),
                    d, "ibag", "wInstModNdx", "imod", W_InstMod)
    ELSE [st EXCEPT !.e = Missing("Missing either or both of 'imod' and 'igen' chunks.")]

\* the end of parse_pdta, from the test after the loop on: [e, out], the
\* exception raised if any and the printed lines
pdta_return(d, size, printed) ==
    IF size < 0 THEN [e |-> Exceeded(size), out |-> printed]
    ELSE Block4(Block3(Block2(Block1([e |-> NoErr, out |-> printed], d), d), d), d)

-----------------------------------------------------------------------------
(* parse() and parse_sfbk(), one action for each step between two reads of *)
(* a chunk header                                                          *)

\* an exception leaves parse(): the cursor stays where the failing call left it
Fail(c, e, printed) ==
    /\ pc' = "failed"
    /\ err' = e
    /\ buffer' = c.buf
    /\ fpos' = c.pos
    /\ out' = printed
    /\ UNCHANGED <<file, kwargs, returned, ignore_errors, ignoreIndexOutOfRange, INFO, sdta, pdta,
                   local, ckSize>>

\* a step of a section assembler that returned r.v = [local, ckSize]
Continue(r, next) ==
    IF Failed(r) THEN Fail(r.c, r.e, out)
    ELSE /\ pc' = next
         /\ buffer' = r.c.buf
         /\ fpos' = r.c.pos
         /\ local' = r.v.local
         /\ ckSize' = r.v.ckSize
         /\ UNCHANGED <<file, kwargs, returned, ignore_errors, ignoreIndexOutOfRange, INFO, sdta, pdta,
                        err, out>>

NotSF2Chunk(ckID, size) ==
    Error("print", "Found chunk - probably not a SF2 file.", ckID, size, 0)
NotSF2Form(formID) ==
    Error("print", "Found form header - probably not a SF2 file.", formID, 0, 0)

\* parse(), up to the call of parse_sfbk, on the outer chunk header h
ParseOn(h) ==
    /\ INFO' = EmptyDict
    /\ sdta' = EmptyDict
    /\ pdta' = EmptyDict
    /\ UNCHANGED <<file, kwargs, returned, ignore_errors, ignoreIndexOutOfRange, local, ckSize>>
    /\ IF Failed(h)
       THEN /\ pc' = "failed"
            /\ err' = h.e
            /\ buffer' = h.c.buf
            /\ fpos' = h.c.pos
            /\ out' = out
       ELSE IF h.v.ckID = T_RIFF
       THEN /\ pc' = "parse_sfbk"
            /\ err' = err
            /\ buffer' = h.c.buf
            /\ fpos' = h.c.pos
            /\ out' = out
       ELSE /\ pc' = "done"
            /\ err' = err
            /\ out' = Append(out, NotSF2Chunk(h.v.ckID, h.v.ckSize))
            /\ buffer' = skip(h.c, h.v.ckSize).buf
            /\ fpos' = skip(h.c, h.v.ckSize).pos

Parse ==
    /\ pc = "parse"
    /\ ParseOn(chunk_header(Cursor))

\* a parse_sfbk() that raises on another form id: the driver that
\* C7_NotRecognized tells apart from parse_sfbk()
ParseSfbkOn_fatal(f) ==
    IF Failed(f) THEN Fail(f.c, f.e, out)
    ELSE IF f.v # T_sfbk
    THEN Fail(f.c, ExpectedForm("Expected form 'sfbk' but found", f.v), out)
    ELSE /\ buffer' = f.c.buf
         /\ fpos' = f.c.pos
         /\ pc' = "parse_INFO"
         /\ UNCHANGED <<file, kwargs, returned, ignore_errors, ignoreIndexOutOfRange, INFO, sdta, pdta,
                        local, ckSize, err, out>>

\* parse_sfbk(), up to the call of parse_INFO, on the form id f
ParseSfbkOn(f) ==
    IF Failed(f) THEN Fail(f.c, f.e, out)
    ELSE /\ buffer' = f.c.buf
         /\ fpos' = f.c.pos
         /\ IF f.v = T_sfbk
            THEN pc' = "parse_INFO" /\ out' = out
            ELSE pc' = "done" /\ out' = Append(out, NotSF2Form(f.v))
         /\ UNCHANGED <<file, kwargs, returned, ignore_errors, ignoreIndexOutOfRange, INFO, sdta, pdta,
                        local, ckSize, err>>

ParseSfbk ==
    /\ pc = "parse_sfbk"
    /\ ParseSfbkOn(FOURCC(Cursor))

ParseINFO ==
    /\ pc = "parse_INFO"
    /\ Continue(INFO_header(Cursor), "INFO_loop")

INFOSubChunk ==
    /\ pc = "INFO_loop"
    /\ ckSize > 0
    /\ Continue(INFO_subchunk(Cursor, local, ckSize), "INFO_loop")

\* parse_INFO returns r and parse_sfbk stores the dict in self.INFO
INFOReturnOn(r) ==
    IF Failed(r) THEN Fail(r.c, r.e, out)
    ELSE /\ pc' = "parse_sdta"
         /\ INFO' = r.v
         /\ UNCHANGED <<file, kwargs, returned, fpos, buffer, ignore_errors, ignoreIndexOutOfRange,
                        sdta, pdta, local, ckSize, err, out>>

INFOReturn ==
    /\ pc = "INFO_loop"
    /\ ~(ckSize > 0)
    /\ INFOReturnOn(INFO_return(Cursor, local))

ParseSdta ==
    /\ pc = "parse_sdta"
    /\ Continue(sdta_header(Cursor), "sdta_loop")

SdtaSubChunk ==
    /\ pc = "sdta_loop"
    /\ ckSize > 0
    /\ Continue(sdta_subchunk(Cursor, local, ckSize), "sdta_loop")

\* parse_sdta returns r and parse_sfbk stores the dict in self.sdta
SdtaReturnOn(r) ==
    IF Failed(r) THEN Fail(r.c, r.e, out)
    ELSE /\ pc' = "parse_pdta"
         /\ sdta' = r.v
         /\ UNCHANGED <<file, kwargs, returned, fpos, buffer, ignore_errors, ignoreIndexOutOfRange,
                        INFO, pdta, local, ckSize, err, out>>

SdtaReturn ==
    /\ pc = "sdta_loop"
    /\ ~(ckSize > 0)
    /\ SdtaReturnOn(sdta_return(Cursor, local))

ParsePdta ==
    /\ pc = "parse_pdta"
    /\ Continue(pdta_header(Cursor), "pdta_loop")

PdtaSubChunk ==
    /\ pc = "pdta_loop"
    /\ ckSize > 0
    /\ Continue(pdta_subchunk(Cursor, local, ckSize), "pdta_loop")

\* parse_pdta ends its checks in st = [e, out] and returns, parse_sfbk stores
\* the dict in self.pdta, and parse() returns
PdtaReturnOn(st) ==
    IF st.e.type # "none" THEN Fail(Cursor, st.e, st.out)
    ELSE /\ pc' = "done"
         /\ pdta' = local
         /\ out' = st.out
         /\ UNCHANGED <<file, kwargs, returned, fpos, buffer, ignore_errors, ignoreIndexOutOfRange,
                        INFO, sdta, local, ckSize, err>>

PdtaReturn ==
    /\ pc = "pdta_loop"
    /\ ~(ckSize > 0)
    /\ PdtaReturnOn(pdta_return(local, ckSize, out))

-----------------------------------------------------------------------------
(* The queries on the decoded file: the getters, print_summary, list_samples *)

KeyError(key) == Error("KeyError", key, << >>, 0, 0)
\* print(f"..."): the text of the f-string, and the values put into it
Printed(what, text, a, b) == Error("print", what, text, a, b)

\* str(x) of a text that may be None, and ". "
T_None == <<78, 111, 110, 101>>
Str(x) == IF x = None THEN T_None ELSE x[1]
Sep == <<46, 32>>

\* self.INFO['ifil']: v is the dict with wMajor and wMinor
get_sfVersionTag ==
    IF "ifil" \notin DOMAIN INFO THEN Raise(Cursor, KeyError("ifil"))
    ELSE IF INFO.ifil.t = "None" THEN Raise(Cursor, TypeError)
    ELSE Ret(Cursor, INFO.ifil.l[1])

\* self.INFO[key][field] of a sub-chunk that is stored as one dict
InfoText(key) ==
    IF key \notin DOMAIN INFO THEN Raise(Cursor, KeyError(key))
    ELSE IF INFO[key].t = "None" THEN Raise(Cursor, TypeError)
    ELSE Ret(Cursor, INFO[key].l[1].sz)

get_szSoundEngine == InfoText("isng")
get_szName == InfoText("INAM")

\* zstr = l[0][field]; for x in l[1:]: zstr += ". " + x[field]
RECURSIVE JoinFrom(_, _, _)
JoinFrom(l, i, zstr) ==
    IF i > Len(l) THEN zstr ELSE JoinFrom(l, i + 1, zstr \o Sep \o l[i].sz[1])

\* the getters of the sub-chunks stored as lists: "" for an empty list, and a
\* TypeError when a text that is None meets the +
InfoJoined(key) ==
    IF key \notin DOMAIN INFO THEN Raise(Cursor, KeyError(key))
    ELSE IF Len(INFO[key].l) = 0 THEN Ret(Cursor, Some(<< >>))
    ELSE IF Len(INFO[key].l) = 1 THEN Ret(Cursor, INFO[key].l[1].sz)
    ELSE IF \E i \in DOMAIN INFO[key].l : INFO[key].l[i].sz = None
    THEN Raise(Cursor, TypeError)
    ELSE Ret(Cursor, Some(JoinFrom(INFO[key].l, 2, INFO[key].l[1].sz[1])))

get_engName == InfoJoined("IENG")
get_copyright == InfoJoined("ICOP")
get_comment == InfoJoined("ICMT")
get_date == InfoJoined("ICRD")

\* the lines of print_summary, each on the state st = [e, out] the lines
\* before it left: a getter that raises ends print_summary
PrintVersion(st, r) ==
    IF Failed(r) THEN [st EXCEPT !.e = r.e]
    ELSE [st EXCEPT !.out = Append(@, Printed("SoundFont Version {}", << >>,
                                              r.v.wMajor, r.v.wMinor))]

\* f"'{name}', {eng}, for the {engine} sound engine."
NameLine(name, eng, engine) ==
    <<39>> \o name \o <<39, 44, 32>> \o eng
    \o <<44, 32, 102, 111, 114, 32, 116, 104, 101, 32>> \o engine
    \o <<32, 115, 111, 117, 110, 100, 32, 101, 110, 103, 105, 110, 101, 46>>

PrintName(st, name, eng, engine) ==
    IF st.e.type # "none" THEN st
    ELSE IF Failed(name) THEN [st EXCEPT !.e = name.e]
    ELSE IF Failed(eng) THEN [st EXCEPT !.e = eng.e]
    ELSE IF Failed(engine) THEN [st EXCEPT !.e = engine.e]
    ELSE [st EXCEPT !.out = Append(@, Printed("'{}', {}, for the {} sound engine.",
              NameLine(Str(name.v), Str(eng.v), Str(engine.v)), 0, 0))]

PrintText(st, what, r) ==
    IF st.e.type # "none" THEN st
    ELSE IF Failed(r) THEN [st EXCEPT !.e = r.e]
    ELSE [st EXCEPT !.out = Append(@, Printed(what, Str(r.v), 0, 0))]

\* print(f"Number of samples: {len(self.pdta['shdr'])}")
PrintSamples(st) ==
    IF st.e.type # "none" THEN st
    ELSE IF "shdr" \notin DOMAIN pdta THEN [st EXCEPT !.e = KeyError("shdr")]
    ELSE IF pdta.shdr = None THEN [st EXCEPT !.e = TypeError]
    ELSE [st EXCEPT !.out = Append(@, Printed("Number of samples: {}", << >>,
                                              Len(pdta.shdr[1]), 0))]

print_summary(printed) ==
    PrintSamples(
    PrintText(
    PrintText(
    PrintText(
    PrintName(
    PrintVersion([e |-> NoErr, out |-> printed], get_sfVersionTag),
        get_szName, get_engName, get_szSoundEngine),
        "Copyrights: {}", get_copyright),
        "Comments: {}", get_comment),
        "Dates: {}", get_date))

\* the line list_samples prints for one sample header
SampleLine(sample) ==
    Printed("'{}' {}Hz {} samples", sample.achSampleName, sample.dwSampleRate,
            sample.dwEnd - sample.dwStart)

\* for sample in self.pdta['shdr'][0:-1]: print(...)
list_samples(printed) ==
    IF "shdr" \notin DOMAIN pdta THEN [e |-> KeyError("shdr"), out |-> printed]
    ELSE IF pdta.shdr = None THEN [e |-> TypeError, out |-> printed]
    ELSE [e |-> NoErr,
          out |-> printed \o [i \in 1 .. Len(pdta.shdr[1]) - 1 |-> SampleLine(pdta.shdr[1][i])]]

\* a query made after parse() has returned ends as st = [e, out]
QueryOn(st, next) ==
    IF st.e.type # "none" THEN Fail(Cursor, st.e, st.out)
    ELSE /\ pc' = next
         /\ out' = st.out
         /\ UNCHANGED <<file, kwargs, returned, fpos, buffer, ignore_errors,
                        ignoreIndexOutOfRange, INFO, sdta, pdta, local, ckSize, err>>

PrintSummary ==
    /\ pc = "done"
    /\ QueryOn(print_summary(out), "print_summary")

ListSamples ==
    /\ pc = "done"
    /\ QueryOn(list_samples(out), "list_samples")

Next ==
    \/ Parse
    \/ ParseSfbk
    \/ ParseINFO
    \/ INFOSubChunk
    \/ INFOReturn
    \/ ParseSdta
    \/ SdtaSubChunk
    \/ SdtaReturn
    \/ ParsePdta
    \/ PdtaSubChunk
    \/ PdtaReturn
    \/ PrintSummary
    \/ ListSamples

-----------------------------------------------------------------------------
(* The files the parser is run on: SF2 files written out byte by byte, each *)
(* family changing one part of a small well-formed file                    *)

MaxRecs == 3        \* records in an array that is varied
MaxNdx == 3         \* largest index value in a cross-reference that is varied
OrderRecs == 2      \* records in an array whose index fields are put in every order
MonoNdx == 1        \* largest index value in such an array
MaxSamples == 2     \* samples in the smpl chunk
MaxInfoChunks == 2  \* sub-chunks in an INFO list that is varied
MaxPrefix == 24     \* longest proper prefix of the file that is cut off at its end

LE16(n) == <<n % 256, n \div 256>>
LE32(n) == <<n % 256, (n \div 256) % 256, (n \div 65536) % 256, n \div 16777216>>
Zeros(n) == [i \in 1 .. n |-> 0]

RECURSIVE Concat(_)
Concat(ss) == IF ss = << >> THEN << >> ELSE Head(ss) \o Concat(Tail(ss))

\* all sequences over S of length 0 .. n
SeqsUpTo(S, n) == UNION {[1 .. k -> S] : k \in 0 .. n}

\* a chunk with the declared size `size`, and one whose size is its payload's
SizedChunk(tag, size, payload) == tag \o LE32(size) \o payload
Chunk(tag, payload) == SizedChunk(tag, Len(payload), payload)
ListChunk(form, chunks) == Chunk(T_LIST, form \o Concat(chunks))
RiffFile(sections) == Chunk(T_RIFF, T_sfbk \o Concat(sections))

Name20 == <<65>> \o Zeros(19)
PhdrRec(name, ndx) == name \o LE16(0) \o LE16(0) \o LE16(ndx) \o Zeros(12)
BagRec(b) == LE16(b[1]) \o LE16(b[2])
InstRec(name, ndx) == name \o LE16(ndx)
ShdrRec(name) == name \o Zeros(26)

Records(rec(_), xs) == Concat([i \in 1 .. Len(xs) |-> rec(xs[i])])

\* the description of a pdta list: the index fields of the four index-bearing
\* arrays, the number of records of the other five, the name field of the
\* records that have one, the chunk `odd` that gets `pad` more bytes, and the
\* chunk left out
GoodPdta ==
    [phdr |-> <<0, 1>>, pbag |-> <<<<0, 0>>, <<1, 0>>>>, pmod |-> 1, pgen |-> 2,
     inst |-> <<0, 1>>, ibag |-> <<<<0, 0>>, <<1, 0>>>>, imod |-> 1, igen |-> 2,
     shdr |-> 2, name |-> Name20, odd |-> "", pad |-> 0, without |-> ""]

PdtaPayload(p, key) ==
    CASE key = "phdr" -> Records(LAMBDA x : PhdrRec(p.name, x), p.phdr)
      [] key = "pbag" -> Records(BagRec, p.pbag)
      [] key = "pmod" -> Zeros(10 * p.pmod)
      [] key = "pgen" -> Zeros(4 * p.pgen)
      [] key = "inst" -> Records(LAMBDA x : InstRec(p.name, x), p.inst)
      [] key = "ibag" -> Records(BagRec, p.ibag)
      [] key = "imod" -> Zeros(10 * p.imod)
      [] key = "igen" -> Zeros(4 * p.igen)
      [] key = "shdr" -> Concat([i \in 1 .. p.shdr |-> ShdrRec(p.name)])

PdtaTag(key) ==
    CASE key = "phdr" -> T_phdr [] key = "pbag" -> T_pbag [] key = "pmod" -> T_pmod
      [] key = "pgen" -> T_pgen [] key = "inst" -> T_inst [] key = "ibag" -> T_ibag
      [] key = "imod" -> T_imod [] key = "igen" -> T_igen [] key = "shdr" -> T_shdr

PdtaOrder == <<"phdr", "pbag", "pmod", "pgen", "inst", "ibag", "imod", "igen", "shdr">>

PdtaChunk(p, key) ==
    IF key = p.without THEN << >>
    ELSE Chunk(PdtaTag(key),
               PdtaPayload(p, key) \o (IF key = p.odd THEN Zeros(p.pad) ELSE << >>))

PdtaList(p) == ListChunk(T_pdta, [i \in 1 .. 9 |-> PdtaChunk(p, PdtaOrder[i])])

IfilChunk == Chunk(T_ifil, LE16(2) \o LE16(1))
GoodInfo == ListChunk(T_INFO, <<IfilChunk, Chunk(T_INAM, <<65, 0>>)>>)
GoodSdta == ListChunk(T_sdta, <<Chunk(T_smpl, LE16(1))>>)
GoodFile == RiffFile(<<GoodInfo, GoodSdta, PdtaList(GoodPdta)>>)

PdtaFile(p) == RiffFile(<<GoodInfo, GoodSdta, PdtaList(p)>>)

\* pdta lists with one sub-chunk left out
PdtaWithout == {[GoodPdta EXCEPT !.without = k] : k \in DOMAIN PdtaInit}

\* the array `key` of p made n records long, every index field 0
WithCount(p, key, n) ==
    IF key \in {"phdr", "inst"} THEN [p EXCEPT ![key] = [i \in 1 .. n |-> 0]]
    ELSE IF key \in {"pbag", "ibag"} THEN [p EXCEPT ![key] = [i \in 1 .. n |-> <<0, 0>>]]
    ELSE [p EXCEPT ![key] = n]

\* pdta lists with one sub-chunk of n records, and of n records and one byte
PdtaSizes ==
    {[WithCount(GoodPdta, k, n) EXCEPT !.odd = k, !.pad = d] :
        k \in DOMAIN PdtaInit, n \in 0 .. MaxRecs, d \in {0, 1}}

\* pdta lists with the index fields of one array in every order
PdtaOrders ==
    LET ndx == SeqsUpTo(0 .. MonoNdx, OrderRecs)
        bag == SeqsUpTo((0 .. MonoNdx) \X (0 .. MonoNdx), OrderRecs)
    IN  {[GoodPdta EXCEPT !.phdr = x] : x \in ndx}
        \cup {[GoodPdta EXCEPT !.inst = x] : x \in ndx}
        \cup {[GoodPdta EXCEPT !.pbag = x] : x \in bag}
        \cup {[GoodPdta EXCEPT !.ibag = x] : x \in bag}

\* pdta lists with one cross-reference and the length of its target varied
PdtaBounds ==
    LET two(x) == <<x, x>>
        bagG(x) == <<<<x, 0>>, <<x, 0>>>>
        bagM(x) == <<<<0, x>>, <<0, x>>>>
        zeros(n) == [i \in 1 .. n |-> <<0, 0>>]
    IN  UNION {
          { [GoodPdta EXCEPT !.phdr = two(x), !.pbag = zeros(n)],
            [GoodPdta EXCEPT !.pbag = bagG(x), !.pgen = n],
            [GoodPdta EXCEPT !.pbag = bagM(x), !.pmod = n],
            [GoodPdta EXCEPT !.inst = two(x), !.ibag = zeros(n)],
            [GoodPdta EXCEPT !.ibag = bagG(x), !.igen = n],
            [GoodPdta EXCEPT !.ibag = bagM(x), !.imod = n] }
          : x \in 0 .. MaxNdx, n \in 0 .. MaxRecs }

\* name fields: terminated, not terminated, empty, and not UTF-8
Names == {Name20, [i \in 1 .. 20 |-> 65], Zeros(20), <<255>> \o Zeros(19)}
PdtaNames == {[GoodPdta EXCEPT !.name = x] : x \in Names}

\* a pdta list with a sub-chunk of an unknown tag, and one whose declared
\* length is shorter than its sub-chunks
PdtaOther ==
    { RiffFile(<<GoodInfo, GoodSdta,
                 ListChunk(T_pdta, <<Chunk(T_phdr, << >>), Chunk(T_INAM, << >>)>>)>>),
      RiffFile(<<GoodInfo, GoodSdta,
                 SizedChunk(T_LIST, 13, T_pdta \o Chunk(T_pgen, Zeros(4)))>>) }

\* sample headers that differ from each other: the i-th has the name of one
\* letter, the first sample i, the end 4 * i and the rate 100 * i
SampleRec(i) ==
    <<64 + i>> \o Zeros(19) \o LE32(i) \o LE32(4 * i) \o Zeros(8) \o LE32(100 * i)
    \o Zeros(6)

\* INFO lists that have the sub-chunks print_summary asks for, and after them
\* no text, two comments, a date with no text, a copyright with no text
\* after one with text
SummaryInfos ==
    {ListChunk(T_INFO, <<IfilChunk, Chunk(T_isng, <<69, 0>>), Chunk(T_INAM, <<65, 0>>)>> \o x) :
        x \in { << >>,
                <<Chunk(T_ICMT, <<67, 0>>), Chunk(T_ICMT, <<68, 0>>)>>,
                <<Chunk(T_ICRD, <<0, 0>>)>>,
                <<Chunk(T_ICOP, <<67, 0>>), Chunk(T_ICOP, <<0, 0>>)>> }}

\* files with 1 .. MaxRecs such sample headers
SampleFiles ==
    {RiffFile(<<info, GoodSdta,
                ListChunk(T_pdta, [i \in 1 .. 8 |-> PdtaChunk(GoodPdta, PdtaOrder[i])]
                                  \o <<Chunk(T_shdr, Concat([i \in 1 .. n |-> SampleRec(i)]))>>)>>) :
        info \in SummaryInfos, n \in 1 .. MaxRecs}

PdtaFiles ==
    {PdtaFile(p) : p \in PdtaWithout \cup PdtaSizes \cup PdtaOrders \cup PdtaNames}
    \cup PdtaOther

\* the INFO sub-chunks an INFO list is put together from
InfoMenu ==
    { IfilChunk,
      Chunk(T_ifil, Zeros(6)),
      Chunk(T_iver, LE16(1) \o LE16(0)),
      Chunk(T_INAM, <<65, 0>>),
      Chunk(T_INAM, <<65, 66>>),
      Chunk(T_INAM, <<0, 65>>),
      Chunk(T_INAM, <<255, 0>>),
      Chunk(T_INAM, << >>),
      Chunk(T_isng, <<65, 0, 66, 0>>),
      Chunk(T_ICMT, <<65, 0>>),
      Chunk(T_smpl, << >>) }

InfoFiles ==
    {RiffFile(<<ListChunk(T_INFO, x), GoodSdta, PdtaList(GoodPdta)>>) :
        x \in SeqsUpTo(InfoMenu, MaxInfoChunks)}

\* 16-bit samples (as unsigned words) and 8-bit extensions
SampleWords == {1, 255, 65535}
SampleBytes == {0, 10, 128}

SdtaLists ==
    UNION {
      {<<Chunk(T_smpl, Concat([i \in 1 .. Len(w) |-> LE16(w[i])]))>>}
      \cup {<<Chunk(T_smpl, Concat([i \in 1 .. Len(w) |-> LE16(w[i])])), Chunk(T_sm24, b)>> :
               b \in [1 .. Len(w) -> SampleBytes]}
      : w \in SeqsUpTo(SampleWords, MaxSamples) }
    \cup { << >>,
           <<Chunk(T_smpl, <<1, 0, 2>>)>>,
           <<Chunk(T_sm24, <<10, 0>>)>>,
           <<Chunk(T_INAM, <<65, 0>>), Chunk(T_smpl, LE16(1))>> }

SdtaFiles ==
    {RiffFile(<<GoodInfo, ListChunk(T_sdta, x), PdtaList(GoodPdta)>>) : x \in SdtaLists}

\* files whose container is not the expected one: the outer tag, the form id,
\* the tag or the form id of one nested list, or the order of the sections
T_RIFX == <<82, 73, 70, 88>>
T_sfbX == <<115, 102, 98, 88>>
T_LISX == <<76, 73, 83, 88>>

Section(tag, form, chunks) == Chunk(tag, form \o Concat(chunks))
InfoChunks == <<IfilChunk, Chunk(T_INAM, <<65, 0>>)>>
SdtaChunks == <<Chunk(T_smpl, LE16(1))>>
PdtaChunks == [i \in 1 .. 9 |-> PdtaChunk(GoodPdta, PdtaOrder[i])]

ContainerFiles ==
    LET body == Concat(<<GoodInfo, GoodSdta, PdtaList(GoodPdta)>>)
        pl == PdtaList(GoodPdta)
    IN  { Chunk(T_RIFX, T_sfbk \o body),
          Chunk(<<255, 73, 70, 70>>, T_sfbk \o body),
          Chunk(T_RIFF, T_sfbX \o body),
          Chunk(T_RIFF, <<255, 102, 98, 107>> \o body),
          Chunk(T_LIST, T_INFO \o Concat(InfoChunks)),
          RiffFile(<<Section(T_LISX, T_INFO, InfoChunks), GoodSdta, pl>>),
          RiffFile(<<Section(T_LIST, T_sdta, InfoChunks), GoodSdta, pl>>),
          RiffFile(<<GoodSdta, GoodInfo, pl>>),
          RiffFile(<<GoodInfo, Section(T_LISX, T_sdta, SdtaChunks), pl>>),
          RiffFile(<<GoodInfo, Section(T_LIST, T_pdta, SdtaChunks), pl>>),
          RiffFile(<<GoodInfo, pl, GoodSdta>>),
          RiffFile(<<GoodInfo, GoodSdta, Section(T_LISX, T_pdta, PdtaChunks)>>),
          RiffFile(<<GoodInfo, GoodSdta, Section(T_LIST, T_INFO, PdtaChunks)>>),
          RiffFile(<<GoodInfo, GoodSdta, GoodSdta>>),
          RiffFile(<<GoodInfo, GoodSdta>>),
          RiffFile(<<GoodInfo>>) }

\* files that end early: the prefixes of a well-formed file and of one with
\* another outer tag
CutFiles ==
    {Take(f, n) : f \in {GoodFile, Chunk(T_RIFX, T_sfbk)}, n \in 0 .. MaxPrefix}

\* a run: the file and the two options, both passed to the constructor
Run(files, ie, io) ==
    {[file |-> f, ie |-> Some(a), io |-> Some(b)] : f \in files, a \in ie, b \in io}
\* a run that leaves ignoreIndexOutOfRange to the constructor's default
RunDefault(files, ie) == {[file |-> f, ie |-> a, io |-> None] : f \in files, a \in ie}

Runs ==
    Run({GoodFile}, BOOLEAN, BOOLEAN)
    \cup Run(ContainerFiles \cup CutFiles, BOOLEAN, {TRUE})
    \cup Run(InfoFiles, BOOLEAN, {TRUE})
    \cup Run(SdtaFiles, {FALSE}, {TRUE})
    \cup Run(PdtaFiles, {FALSE}, {TRUE, FALSE})
    \cup Run(SampleFiles, {FALSE}, {TRUE})
    \cup Run({PdtaFile(p) : p \in PdtaBounds}, {FALSE}, BOOLEAN)
    \cup RunDefault({GoodFile} \cup {PdtaFile(p) : p \in PdtaBounds}, {None})

\* the defaults of the parameters of __init__
Default_ignore_errors == FALSE
\* a constructor whose bound checks are fatal unless asked otherwise
Default_fatal == FALSE
Default_ignoreIndexOutOfRange == TRUE
\* the value of a parameter: the argument passed, else the default
Parameter(arg, default) == IF arg = None THEN default ELSE arg[1]

\* the parser just constructed: the file open at its start, nothing buffered
Init ==
    /\ \E r \in Runs :
          /\ file = r.file
          /\ kwargs = [ignore_errors |-> r.ie, ignoreIndexOutOfRange |-> r.io]
          /\ ignore_errors = Parameter(r.ie, Default_ignore_errors)
          /\ ignoreIndexOutOfRange = Parameter(r.io, Default_ignoreIndexOutOfRange)
    /\ fpos = 0
    /\ buffer = << >>
    /\ pc = "parse"
    /\ INFO = EmptyDict
    /\ sdta = EmptyDict
    /\ pdta = EmptyDict
    /\ local = EmptyDict
    /\ ckSize = 0
    /\ err = NoErr
    /\ out = << >>
    /\ returned = None

Spec == Init /\ [][Next]_vars

-----------------------------------------------------------------------------
(* The cursor reads on their own: any read, in any order, on a short stream *)

MaxStream == 4
MaxField == 3
MaxReads == 3

\* the streams: text bytes and null bytes, and some bytes that are not UTF-8
ReadStreams ==
    UNION {[1 .. n -> {0, 65}] : n \in 0 .. MaxStream}
    \cup {<<255>>, <<255, 0, 0, 0>>, <<65, 255, 0, 0>>}

ReadInit ==
    /\ file \in ReadStreams
    /\ kwargs = [ignore_errors |-> None, ignoreIndexOutOfRange |-> None]
    /\ ignore_errors = Default_ignore_errors
    /\ ignoreIndexOutOfRange = Default_ignoreIndexOutOfRange
    /\ fpos = 0
    /\ buffer = << >>
    /\ pc = "read"
    /\ INFO = EmptyDict
    /\ sdta = EmptyDict
    /\ pdta = EmptyDict
    /\ local = EmptyDict
    /\ ckSize = 0
    /\ err = NoErr
    /\ out = << >>
    /\ returned = None

\* the number of reads that have returned
Reads == IF returned = None THEN 0 ELSE returned[1].nth

\* the read `op` of n bytes is called and ends as r: it raises, or it returns
\* r.v and leaves the cursor r.c
Returns(op, n, r) ==
    /\ pc = "read"
    /\ Reads < MaxReads
    /\ IF Failed(r) THEN Fail(r.c, r.e, out)
       ELSE /\ buffer' = r.c.buf
            /\ fpos' = r.c.pos
            /\ returned' = Some([op |-> op, n |-> n, v |-> r.v, nth |-> Reads + 1])
            /\ UNCHANGED <<file, kwargs, ignore_errors, ignoreIndexOutOfRange, pc,
                           INFO, sdta, pdta, local, ckSize, err, out>>

ReadSHORT == Returns("SHORT", 2, SHORT(Cursor))
ReadWORD == Returns("WORD", 2, WORD(Cursor))
ReadDWORD == Returns("DWORD", 4, DWORD(Cursor))
ReadFOURCC == Returns("FOURCC", 4, FOURCC(Cursor))
ReadBYTE == Returns("BYTE", 1, BYTE(Cursor))
ReadCHAR == Returns("CHAR", 1, CHAR(Cursor))
ReadZSTR == \E n \in 0 .. MaxField : Returns("ZSTR", n, ZSTR(Cursor, n))
ReadSmpl == \E n \in 0 .. MaxField : Returns("parse_smpl", n, parse_smpl(Cursor, n))
ReadSm24 == \E n \in 0 .. MaxField : Returns("parse_sm24", n, parse_sm24(Cursor, n))

\* self.check(n) by a caller, ahead of the reads of a chunk's fields
Prefetch ==
    /\ pc = "read"
    /\ \E n \in 1 .. MaxField :
          /\ check(Cursor, n) # Cursor
          /\ buffer' = check(Cursor, n).buf
          /\ fpos' = check(Cursor, n).pos
    /\ UNCHANGED <<file, kwargs, returned, ignore_errors, ignoreIndexOutOfRange, pc,
                   INFO, sdta, pdta, local, ckSize, err, out>>

ReadNext ==
    \/ ReadSHORT
    \/ ReadWORD
    \/ ReadDWORD
    \/ ReadFOURCC
    \/ ReadBYTE
    \/ ReadCHAR
    \/ ReadZSTR
    \/ ReadSmpl
    \/ ReadSm24
    \/ Prefetch

ReadSpec == ReadInit /\ [][ReadNext]_vars

-----------------------------------------------------------------------------
(* What the file says, read straight from its bytes: the properties below  *)
(* compare the parser's results with these                                 *)

\* the bytes of the stream from the consumed position on, n at most
Ahead(n) == SubSeq(file, Consumed + 1, Min(Consumed + n, Len(file)))
\* the chunk header at the consumed position is in the stream in full
HeaderAhead == Len(file) >= Consumed + 8
NextTag == Ahead(4)
NextSize == Unsigned(SubSeq(file, Consumed + 5, Consumed + 8))

\* the chunks laid end to end in bs
RECURSIVE ChunksOf(_)
ChunksFrom(bs, n) ==
    <<[tag |-> SubSeq(bs, 1, 4), size |-> n, data |-> SubSeq(bs, 9, Min(8 + n, Len(bs)))]>>
    \o ChunksOf(Drop(bs, 8 + n))
ChunksOf(bs) == IF Len(bs) < 8 THEN << >> ELSE ChunksFrom(bs, Unsigned(SubSeq(bs, 5, 8)))

\* the sections of the file after RIFF <size> sfbk, and the sub-chunks of the
\* second one where it is the sdta list
FileSections == ChunksOf(Drop(file, 12))
HasSdtaList ==
    /\ Len(FileSections) >= 2
    /\ FileSections[2].tag = T_LIST
    /\ Take(FileSections[2].data, 4) = T_sdta
SdtaSubChunks == ChunksOf(Drop(FileSections[2].data, 4))
Whole(ck) == Len(ck.data) = ck.size

\* the 16-bit samples of a smpl payload as signed values, the bytes of sm24 unsigned
Sample16(bs) == [i \in 1 .. Len(bs) \div 2 |-> Signed(SubSeq(bs, 2 * i - 1, 2 * i), 16)]

RecordWidth(key) ==
    CASE key = "phdr" -> 38 [] key = "pbag" -> 4 [] key = "pmod" -> 10
      [] key = "pgen" -> 4 [] key = "inst" -> 22 [] key = "ibag" -> 4
      [] key = "imod" -> 10 [] key = "igen" -> 4 [] key = "shdr" -> 46

Assigned(d) == DOMAIN d # {}

-----------------------------------------------------------------------------
(* The claims *)

IndexFields ==
    { <<"phdr", "wPresetBagNdx">>, <<"pbag", "wGenNdx">>, <<"pbag", "wModNdx">>,
      <<"inst", "wInstBagNdx">>, <<"ibag", "wInstGenNdx">>, <<"ibag", "wInstModNdx">> }

NonDecreasing(a, field) == \A i \in 1 .. Len(a) - 1 : a[i][field] <= a[i + 1][field]

\* C1: every array that parse_phdr, parse_pbag, parse_inst or parse_ibag
\* returned to parse_pdta has each of its index fields non-decreasing from one
\* record to the next (a decrease makes the decoder fail, so the array is
\* never stored).
C1_IndexFieldsNonDecreasing ==
    pc = "pdta_loop" =>
        \A f \in IndexFields :
            local[f[1]] # None => NonDecreasing(local[f[1]][1], f[2])

CrossReferences ==
    { <<"phdr", "wPresetBagNdx", "pbag">>, <<"pbag", "wGenNdx", "pgen">>,
      <<"pbag", "wModNdx", "pmod">>, <<"inst", "wInstBagNdx", "ibag">>,
      <<"ibag", "wInstGenNdx", "igen">>, <<"ibag", "wInstModNdx", "imod">> }

\* the loop of parse_pdta has ended in step with the LIST length
PdtaLoopEnded == pc = "pdta_loop" /\ ckSize = 0

\* every cross-reference has its target array and a second-to-last record
Checkable ==
    /\ \A key \in DOMAIN PdtaInit : local[key] # None
    /\ \A x \in CrossReferences : Len(local[x[1]][1]) >= 2

Beyond(x) == Penultimate(local, x[1], x[2]) >= Len(local[x[3]][1])

\* C2: when parse_pdta ends, a cross-reference whose second-to-last index is
\* at or beyond the length of the array it points into makes parse_pdta fail
\* in strict mode and return the pdta with a diagnostic in lenient mode; when
\* every cross-reference is below the length of its target, parse_pdta
\* returns without a failure and without a diagnostic.
C2_CrossReferenceBounds ==
    [][(PdtaLoopEnded /\ Checkable) =>
          IF \E x \in CrossReferences : Beyond(x)
          THEN IF ~ignoreIndexOutOfRange
               THEN pc' = "failed" /\ err'.type = "Exception"
               ELSE pc' = "done" /\ pdta' = local /\ Len(out') > Len(out)
          ELSE pc' = "done" /\ pdta' = local /\ out' = out]_vars

PairedChunks == {"phdr", "pbag", "pmod", "pgen", "inst", "ibag", "imod", "igen"}

MissingChunk ==
    { Missing("Missing either or both of 'phdr' and 'pbag' chunks."),
      Missing("Missing either or both of 'pmod' and 'pgen' chunks."),
      Missing("Missing either or both of 'inst' and 'ibag' chunks."),
      Missing("Missing either or both of 'imod' and 'igen' chunks.") }

\* C3: when the pdta LIST ends and one of the sub-chunks the four checks name
\* has not appeared, parse_pdta fails with one of the four "Missing either or
\* both of ..." exceptions: no other failure, and no successful return.
C3_MissingChunk ==
    [][(PdtaLoopEnded /\ \E key \in PairedChunks : local[key] = None) =>
          pc' = "failed" /\ err' \in MissingChunk]_vars

\* the sdta list of the file holds exactly these sub-chunks, each in full
SdtaHolds(tags) ==
    /\ HasSdtaList
    /\ Len(SdtaSubChunks) = Len(tags)
    /\ \A i \in 1 .. Len(tags) : SdtaSubChunks[i].tag = tags[i] /\ Whole(SdtaSubChunks[i])

Merge24(s16, s8) == [i \in 1 .. Len(s16) |-> s16[i] * 256 + s8[i]]

\* C4: when the sdta list holds a smpl and an sm24 sub-chunk of the same
\* number of samples, the sample buffer parse_sdta returned is, value by
\* value, (sample16 << 8) | sample8 with sample8 the unsigned low byte.
C4_SamplesMerged ==
    (/\ Assigned(sdta)
     /\ SdtaHolds(<<T_smpl, T_sm24>>)
     /\ Len(SdtaSubChunks[1].data) = 2 * Len(SdtaSubChunks[2].data))
    => sdta.smpl = Some(Merge24(Sample16(SdtaSubChunks[1].data), SdtaSubChunks[2].data))

\* C5: when the sdta list holds a smpl sub-chunk and no sm24, the sample buffer
\* parse_sdta returned holds the signed 16-bit values of the file, unscaled.
C5_SamplesUnscaled ==
    (Assigned(sdta) /\ SdtaHolds(<<T_smpl>>) /\ Len(SdtaSubChunks[1].data) % 2 = 0)
    => sdta.smpl = Some(Sample16(SdtaSubChunks[1].data))

\* the INFO sub-chunks decoded by one call of ZSTR(ckSize) that fall back to None
TextTags == {T_INAM, T_irom, T_ICRD, T_IENG, T_IPRD, T_ICOP, T_ICMT, T_ISFT}

\* the fault flag the claim gives for the field bs: no null byte, or a null first
NoText(bs) == (\A i \in 1 .. Len(bs) : bs[i] # 0) \/ bs[1] = 0

Last(s) == s[Len(s)]

\* C6: ZSTR(L) on an INFO text sub-chunk of declared size L, all L bytes in
\* the stream, returns normally whatever the bytes are, consumes exactly L
\* bytes, and sets fault exactly when the field has no null byte or starts
\* with one (the decoder then stores None in place of the text).
C6_ZstrTotal ==
    [][(/\ pc = "INFO_loop" /\ ckSize > 0
        /\ HeaderAhead
        /\ NextTag \in TextTags
        /\ local[InfoKey(NextTag)].t # "dict"
        /\ Len(file) >= Consumed + 8 + NextSize)
       => /\ pc' = "INFO_loop"
          /\ Consumed' = Consumed + 8 + NextSize
          /\ (Last(local'[InfoKey(NextTag)].l).sz = None)
                <=> NoText(SubSeq(file, Consumed + 9, Consumed + 8 + NextSize))]_vars

\* the text of bs where it decodes, and a tag that is no chunk's otherwise
TextOf(bs) == IF decode(bs).ok THEN decode(bs).s ELSE << -1 >>
Decodes(bs) == decode(bs).ok

NothingDecoded(I, s, p) == ~Assigned(I) /\ ~Assigned(s) /\ ~Assigned(p)

\* parse() has read an outer chunk header whose tag is not 'RIFF': chunk_header
\* returned, which takes the 8 bytes of the header and a tag that decodes (a
\* shorter stream or another tag raises in the reader, before any tag is read)
OtherChunkRead ==
    pc = "parse" /\ Len(file) >= 8 /\ Decodes(Ahead(4)) /\ TextOf(Ahead(4)) # T_RIFF
\* parse_sfbk() has read a form id that is not 'sfbk': FOURCC returned, which
\* it does on the bytes left when fewer than 4 are
OtherFormRead ==
    pc = "parse_sfbk" /\ Decodes(Ahead(4)) /\ TextOf(Ahead(4)) # T_sfbk

\* C7: when the outer chunk tag that parse() read is not 'RIFF', or the form
\* id that parse_sfbk() read is not 'sfbk', parse() returns without an
\* exception, no section is decoded, and INFO, sdta and pdta stay empty.
C7_NotRecognized ==
    [][(OtherChunkRead \/ OtherFormRead) =>
          /\ pc' = "done"
          /\ err' = NoErr
          /\ NothingDecoded(INFO', sdta', pdta')]_vars

\* parse() has returned on a form id that is not 'sfbk', nothing decoded
C7_Witness ==
    /\ pc = "done"
    /\ out = <<NotSF2Form(T_sfbX)>>
    /\ NothingDecoded(INFO, sdta, pdta)

\* where parse_sfbk stands, in the order of its three calls
InINFO == pc \in {"parse_INFO", "INFO_loop"}
InSdta == pc \in {"parse_sdta", "sdta_loop"}
InPdta == pc \in {"parse_pdta", "pdta_loop"}

FormExpected ==
    CASE pc = "parse_INFO" -> T_INFO [] pc = "parse_sdta" -> T_sdta
      [] pc = "parse_pdta" -> T_pdta

\* the nested chunk at the consumed position is not the LIST the section expects
WrongList ==
    /\ pc \in {"parse_INFO", "parse_sdta", "parse_pdta"}
    /\ (NextTag # T_LIST \/ SubSeq(Ahead(12), 9, Len(Ahead(12))) # FormExpected)

\* C8: after RIFF/sfbk the sections are decoded in the order INFO, sdta,
\* pdta: sdta is decoded only with the INFO result stored, pdta only with the
\* sdta result stored, a result is stored only by the return of its own
\* section, and a nested chunk that is not LIST or not of the expected form
\* ends parse() with an exception, nothing printed and nothing skipped.
C8_SectionsInOrder ==
    [][/\ InINFO => NothingDecoded(INFO, sdta, pdta)
       /\ InSdta => Assigned(INFO) /\ ~Assigned(sdta) /\ ~Assigned(pdta)
       /\ InPdta => Assigned(INFO) /\ Assigned(sdta) /\ ~Assigned(pdta)
       /\ (INFO' # INFO /\ pc # "parse") => pc = "INFO_loop" /\ pc' = "parse_sdta"
       /\ (sdta' # sdta /\ pc # "parse") => pc = "sdta_loop" /\ pc' = "parse_pdta"
       /\ (pdta' # pdta /\ pc # "parse") => pc = "pdta_loop" /\ pc' = "done"
       /\ (pc' = "sdta_loop" /\ pc # "sdta_loop") => pc = "parse_sdta"
       /\ (pc' = "pdta_loop" /\ pc # "pdta_loop") => pc = "parse_pdta"
       /\ WrongList =>
             /\ pc' = "failed" /\ err'.type # "none"
             /\ out' = out /\ Consumed' <= Consumed + 12
             /\ INFO' = INFO /\ sdta' = sdta /\ pdta' = pdta]_vars

\* parse() has failed on the form id of the second nested list, INFO decoded
C8_Witness ==
    /\ pc = "failed"
    /\ err.what = "Expected form 'sdta' but found"
    /\ Assigned(INFO) /\ ~Assigned(sdta) /\ ~Assigned(pdta)

\* C9: a record decoder that returns for a sub-chunk of declared size S
\* returns S / width records, len(records) * width = S, and has consumed
\* exactly the S bytes that follow the chunk header.
C9_RecordCount ==
    [][(pc = "pdta_loop" /\ ckSize > 0 /\ pc' = "pdta_loop") =>
          /\ PdtaKey(NextTag) \in DOMAIN PdtaInit
          /\ local'[PdtaKey(NextTag)] # None
          /\ Len(local'[PdtaKey(NextTag)][1]) * RecordWidth(PdtaKey(NextTag)) = NextSize
          /\ Consumed' = Consumed + 8 + NextSize
          /\ ckSize' = ckSize - (8 + NextSize)]_vars

\* all nine arrays decoded, the shdr array MaxRecs records long
C9_Witness ==
    /\ pc = "done"
    /\ Assigned(pdta)
    /\ \A key \in DOMAIN PdtaInit : pdta[key] # None
    /\ Len(pdta.shdr[1]) = MaxRecs

\* C10: a record decoder given a declared size that is not a multiple of its
\* record width fails having consumed nothing after the chunk header and
\* stored nothing, with an exception that names the decoder's own chunk tag,
\* the declared size and the width.
C10_NotMultipleNamesChunk ==
    [][(/\ pc = "pdta_loop" /\ ckSize > 0
        /\ HeaderAhead
        /\ PdtaKey(NextTag) \in DOMAIN PdtaInit
        /\ NextSize % RecordWidth(PdtaKey(NextTag)) # 0)
       => /\ pc' = "failed"
          /\ err' = NotMultiple(NextTag, NextSize, RecordWidth(PdtaKey(NextTag)))
          /\ Consumed' = Consumed + 8
          /\ local' = local]_vars

-----------------------------------------------------------------------------
(* The options of the constructor *)

\* the cross-references parse_pdta compares with the length of their own
\* target array (the reference of phdr into pbag, compared with len(phdr) at
\* line 386, is the subject of C2 and is left out here)
ComparedWithTarget == CrossReferences \ {<<"phdr", "wPresetBagNdx", "pbag">>}

\* parse_pdta has read its whole LIST and one of those references is beyond
\* its target
BoundViolated ==
    PdtaLoopEnded /\ Checkable /\ \E x \in ComparedWithTarget : Beyond(x)

Fatal == pc' = "failed" /\ err'.type = "Exception"
Diagnosed == pc' = "done" /\ pdta' = local /\ Len(out') > Len(out)

-----------------------------------------------------------------------------
(* The cursor reads *)

\* C12: a cursor read of n bytes that returns has advanced the consumed
\* position by exactly n, and the n bytes were in the stream: a read with
\* fewer than n bytes left in the stream does not return, it raises.
C12_ReadsExact ==
    [][Reads' > Reads =>
          /\ Consumed' = Consumed + returned'[1].n
          /\ Len(file) >= Consumed + returned'[1].n]_vars

-----------------------------------------------------------------------------
(* The INFO list *)

\* the sub-chunks of the INFO LIST, as the file has them
InfoSubChunks == ChunksOf(Drop(FileSections[1].data, 4))
IfilOccurred == \E i \in DOMAIN InfoSubChunks : InfoSubChunks[i].tag = T_ifil

\* the loop of parse_INFO has ended
InfoLoopEnded == pc = "INFO_loop" /\ ~(ckSize > 0)

\* C13: when the loop of parse_INFO ends and the INFO LIST of the file has no
\* ifil sub-chunk, parse_INFO fails with "Missing chunk 'ifil'." if
\* ignore_errors is off, and returns the INFO dict with ifil None if it is
\* on; when the LIST has an ifil sub-chunk, parse_INFO does not fail with
\* that exception and the dict it returns has the version tag.
C13_MissingIfil ==
    [][InfoLoopEnded =>
          IF ~IfilOccurred
          THEN IF ~ignore_errors
               THEN pc' = "failed" /\ err' = MissingIfil /\ INFO' = INFO
               ELSE pc' = "parse_sdta" /\ INFO' = local /\ INFO'.ifil = PyNone
          ELSE /\ err' # MissingIfil
               /\ pc' = "parse_sdta" /\ INFO' = local /\ INFO'.ifil # PyNone]_vars

\* parse_INFO has failed on an INFO LIST that has sub-chunks, none an ifil
C13_Witness ==
    /\ pc = "failed"
    /\ err = MissingIfil
    /\ ~ignore_errors
    /\ InfoSubChunks # << >>
    /\ ~IfilOccurred

-----------------------------------------------------------------------------
(* The queries *)

\* parse() has returned and the decoded shdr array has at least one record
ShdrDecoded ==
    pc = "done" /\ "shdr" \in DOMAIN pdta /\ pdta.shdr # None /\ Len(pdta.shdr[1]) >= 1

\* C14: on a decoded file whose shdr array has n >= 1 records, the sample
\* count that print_summary reports is n - 1, and list_samples prints the
\* first n - 1 sample headers, in the order of the array, and not the last.
C14_SamplesReported ==
    [][ShdrDecoded =>
          /\ pc' = "print_summary" => Last(out').a = Len(pdta.shdr[1]) - 1
          /\ pc' = "list_samples" =>
                out' = out \o [i \in 1 .. Len(pdta.shdr[1]) - 1 |->
                                  SampleLine(pdta.shdr[1][i])]]_vars

-----------------------------------------------------------------------------
(* The cursor and the remaining-length counter of the section assemblers *)

InLoop == pc \in {"INFO_loop", "sdta_loop", "pdta_loop"}

\* the position in the file at which its k-th LIST ends: the 12 bytes of the
\* RIFF header and form, then for each LIST its header and its declared size
RECURSIVE SectionEnd(_)
SectionEnd(k) == IF k = 0 THEN 12 ELSE SectionEnd(k - 1) + 8 + FileSections[k].size

\* the number of the LIST the running assembler decodes
SectionNo == CASE pc = "INFO_loop" -> 1 [] pc = "sdta_loop" -> 2 [] pc = "pdta_loop" -> 3

\* C15: in parse_INFO, parse_sdta and parse_pdta, a turn of the loop that
\* ends without an exception has taken from the stream the 8 bytes of the
\* sub-chunk header and the bytes of the declared size, the same number it
\* takes from the remaining length; and an assembler that returns has taken
\* the bytes of its LIST, header and declared size, and no other.
C15_CursorInStep ==
    [][InLoop /\ pc' # "failed" =>
          IF ckSize > 0
          THEN /\ Consumed' = Consumed + 8 + NextSize
               /\ ckSize' = ckSize - (8 + NextSize)
          ELSE Consumed = SectionEnd(SectionNo)]_vars

====
